---- MODULE Spec2Model ----
(***************************************************************************)
(* The REPL session controller of PythonConsole (the IndexedDB revision,   *)
(* src/src/App.tsx lines 283-703) with the store adapter IndexedDb         *)
(* (src/unnamed/part_001).                                                 *)
(*                                                                         *)
(* A JavaScript string is a sequence of one-character strings.  A value of *)
(* type string | null is a record [null, s].  Every event handler or       *)
(* promise callback is one action: the handler's state updates, the render *)
(* that follows and the effects that render runs (the bulk write of the    *)
(* history, the iframe write, the flush of the pending terminal text).     *)
(***************************************************************************)
EXTENDS Integers, Sequences, FiniteSets

\* ------------------------------------------------------------------ bounds

\* The transcript stops growing at this length: the user submits only while
\* the entries and the pending calls together stay below it, and terminal
\* text and callbacks arrive only while there is room for their entries.
MaxHistory == 3
\* Shift+Enter and the continuation newline stop at this buffer length.
MaxInputLen == 4
\* The completion queries that may be pending at once.
MaxCompleting == 1
\* The longest run of ArrowUp presses followed by as many ArrowDown presses.
MaxPresses == 3

\* ----------------------------------------------------------------- strings

NullS == [null |-> TRUE, s |-> <<>>]
Str(s) == [null |-> FALSE, s |-> s]

NL == "\n"
Whitespace == {" ", NL, "\t"}

StartsWith(s, p) == Len(s) >= Len(p) /\ SubSeq(s, 1, Len(p)) = p
EndsWith(s, p) == Len(s) >= Len(p) /\ SubSeq(s, Len(s) - Len(p) + 1, Len(s)) = p

RECURSIVE TrimStart(_)
TrimStart(s) == IF s # <<>> /\ Head(s) \in Whitespace THEN TrimStart(Tail(s)) ELSE s
RECURSIVE TrimEnd(_)
TrimEnd(s) ==
    IF s # <<>> /\ s[Len(s)] \in Whitespace THEN TrimEnd(SubSeq(s, 1, Len(s) - 1)) ELSE s
Trim(s) == TrimEnd(TrimStart(s))

\* text.split('\n'): the index of the last newline (0 when there is none),
\* the last line and the number of lines.
RECURSIVE LastIndexOf(_, _)
LastIndexOf(s, c) ==
    IF s = <<>> THEN 0
    ELSE IF s[Len(s)] = c THEN Len(s)
    ELSE LastIndexOf(SubSeq(s, 1, Len(s) - 1), c)
LastLine(s) == SubSeq(s, LastIndexOf(s, NL) + 1, Len(s))
NumLines(s) == 1 + Cardinality({i \in 1..Len(s) : s[i] = NL})

SentinelInput == <<"P","y","t","h","o","n"," ","v","e","r","s","i","o","n">>
HtmlOpen == <<"<","h","t","m","l",">">>
HtmlClose == <<"<","/","h","t","m","l",">">>
ErrorTag == <<"P","y","t","h","o","n","E","r","r","o","r",":">>
WarningTag == <<"P","y","t","h","o","n","W","a","r","n","i","n","g",":">>
TerminalTag == <<"[","T","e","r","m","i","n","a","l","]">>
NoneText == <<"N","o","n","e">>
TodoList == <<NL,NL,"T","O","D","O">>

MsgStillLoading == "Pyodide is still loading. Please wait..."
MsgPyodideLoaded == "Pyodide loaded successfully"
MsgPackagesLoaded == "Packages loaded successfully"
MsgLoadError == "Error loading Pyodide or packages"
MsgSuggestError == "Error fetching suggestions: "
NoMsg == "(none)"

\* -------------------------------------------------- values of the backend

\* What runPythonAsync resolves with: undefined, null, a number or a string.
Undefined == [t |-> "undefined", n |-> 0, s |-> <<>>]
NullValue == [t |-> "null", n |-> 0, s |-> <<>>]
NumberValue(n) == [t |-> "number", n |-> n, s |-> <<>>]
StringValue(s) == [t |-> "string", n |-> 0, s |-> s]

Digits == <<"0","1","2","3","4","5","6","7","8","9">>
\* result.toString() of a resolved value that is neither undefined nor null.
ToString(v) == IF v.t = "number" THEN <<Digits[v.n + 1]>> ELSE v.s

\* What runPythonAsync rejects with: an Error object (name, message) or a
\* thrown string.
ErrorObject(name, message) == [t |-> "Error", name |-> name, message |-> message]
ThrownString(s) == [t |-> "string", name |-> <<>>, message |-> s]
\* `${error}`: Error.prototype.toString, or the string itself.
ErrorToString(e) ==
    IF e.t = "string" THEN e.message
    ELSE IF e.message = <<>> THEN e.name
    ELSE IF e.name = <<>> THEN e.message
    ELSE e.name \o <<":", " ">> \o e.message

HtmlHi == HtmlOpen \o <<"h","i">> \o HtmlClose
Results == {Undefined, NullValue, NumberValue(2), StringValue(HtmlHi)}
Errors == {ErrorObject(SubSeq(ErrorTag, 1, 11), <<"x">>), ThrownString(HtmlOpen \o HtmlClose)}
VersionResults == {StringValue(<<"3">>)}
\* The text the stdout / stderr callbacks are called with.
Chunks == {NullS, Str(NoneText), Str(<<"x", " ">>)}
\* The values the user may give the textarea.
Inputs == {<<>>, <<" ">>, <<"a">>}

\* ------------------------------------------------------- the classifiers

isHtml(o) == ~o.null /\ StartsWith(o.s, HtmlOpen) /\ EndsWith(o.s, HtmlClose)
\* isPythonError looking for 'Python' only.
isPythonError_ShortTag(o) == ~o.null /\ StartsWith(o.s, SubSeq(ErrorTag, 1, 6))

isPythonError(o) == ~o.null /\ StartsWith(o.s, ErrorTag)
isPythonWarning(o) == ~o.null /\ StartsWith(o.s, WarningTag)
isPyodideTerminal(o) == ~o.null /\ StartsWith(o.s, TerminalTag)

getOutputColor(o) ==
    IF o.null THEN "inherit"
    ELSE IF isPythonError(o) THEN "#ff00ff"
    ELSE IF isPythonWarning(o) THEN "#FFA500"
    ELSE IF isPyodideTerminal(o) THEN "#22ffff"
    ELSE "inherit"

isContinueLastLine(text) ==
    EndsWith(LastLine(text), <<":">>) \/ EndsWith(LastLine(text), <<"\\">>)
\* isMultiLine without the test of the last line.
isMultiLine_AnySecondLine(text) == NumLines(text) > 1

isMultiLine(text) == NumLines(text) > 1 /\ LastLine(text) # <<>>

\* ------------------------------------------------------------- the store

\* A HistoryItem; id = 0 stands for an item without the id property, which
\* only values read from the object store carry.
Item(input, output) == [input |-> input, output |-> output, id |-> 0]

\* store.put(value) on an object store with keyPath 'id' and autoIncrement:
\* a value without id gets the next key, a value with id replaces its record.
\* The records are kept in key order, record i having key i.
StorePut(st, v) ==
    IF v.id \in 1..Len(st) THEN [st EXCEPT ![v.id] = v]
    ELSE Append(st, [v EXCEPT !.id = Len(st) + 1])

RECURSIVE StorePutAll(_, _)
StorePutAll(st, values) ==
    IF values = <<>> THEN st
    ELSE StorePutAll(StorePut(st, Head(values)), Tail(values))

\* One call of the adapter: putValue(STORE_NAME, item) or
\* putBulkValue(STORE_NAME, items).
PutValueOp(item) == [op |-> "putValue", values |-> <<item>>]
PutBulkValueOp(items) == [op |-> "putBulkValue", values |-> items]

\* The calls run in the order they were made (IndexedDB runs the readwrite
\* transactions of one store in creation order); every call throws
\* "Database not initialized" when the database could not be opened.
RECURSIVE ApplyOps(_, _, _)
ApplyOps(st, open, ops) ==
    IF ops = <<>> \/ ~open THEN st
    ELSE ApplyOps(StorePutAll(st, Head(ops).values), open, Tail(ops))

OpNames(ops) == [i \in 1..Len(ops) |-> ops[i].op]

ProbeItem(v) == Item(SentinelInput, Str(ToString(v) \o TodoList))
OldItem == [input |-> <<"a">>, output |-> Str(<<"2">>), id |-> 0]
\* What the object store may hold when the page is opened: nothing, or the
\* records of an earlier session.
InitialStores == {<<>>, StorePutAll(<<>>, <<ProbeItem(StringValue(<<"3">>)), OldItem>>)}

\* --------------------------------------------------------------- the state

VARIABLES
    history,        \* useState<HistoryItem[]>: the transcript
    historyIndex,   \* useState<number>: the history cursor
    currentInput,   \* useState<string>: the textarea's value
    htmlInjection,  \* useState<string | null>
    isPyodideReady, \* useState<boolean>
    isExecuting,    \* useState<boolean>: Busy (TRUE) or Idle (FALSE)
    pendingOutput,  \* useState<string | null>: the pending terminal slot
    N0,             \* useState<number>: the session baseline
    localDB,        \* useState<IndexedDb | null>: TRUE once setLocalDB(db) ran
    boot,           \* where script.onload stands
    initDB,         \* where initDB stands
    savedHistory,   \* what the pending db.getAllValue will resolve with
    inflight,       \* the pending runPythonAsync(code) calls of executeCode
    store,          \* the records of the object store 'history', in key order
    dbOpen,         \* IndexedDb.db is not null
    srcdoc,         \* the srcdoc of the iframe 'injected-plotly-html'
    last,           \* the handler that ran last, with its inputs
    advisory,       \* what the last handler passed to onMessage
    srcdocSet,      \* whether the last handler's render wrote iframe.srcdoc
    dbOps,          \* the adapter calls the last handler and its render made
    suggestions,    \* useState<string[]>: the candidates of the last completion
    showSuggestions,\* useState<boolean>
    completing      \* the pending runPythonAsync calls of getSuggestions

vars == <<history, historyIndex, currentInput, htmlInjection, isPyodideReady,
          isExecuting, pendingOutput, N0, localDB, boot, initDB, savedHistory,
          inflight, store, dbOpen, srcdoc, last, advisory, srcdocSet, dbOps,
         suggestions, showSuggestions, completing>>

\* The state of completion, which only Tab and its callback change.
tabVars == <<suggestions, showSuggestions, completing>>

NoValue == [t |-> "none", n |-> 0, s |-> <<>>]
Event(ev, value) == [ev |-> ev, value |-> value]

\* A pending call of executeCode: the code and the localDB of the render
\* whose executeCode made the call (the callbacks close over both).
Call(code, db) == [code |-> code, localDB |-> db]

RemoveAt(s, i) == SubSeq(s, 1, i - 1) \o SubSeq(s, i + 1, Len(s))

Init ==
    /\ history = <<>>
    /\ historyIndex = -1
    /\ currentInput = <<>>
    /\ htmlInjection = NullS
    /\ isPyodideReady = FALSE
    /\ isExecuting = FALSE
    /\ pendingOutput = NullS
    /\ N0 = 0
    /\ localDB = FALSE
    /\ boot = "script"
    /\ initDB = "open"
    /\ savedHistory = <<>>
    /\ inflight = <<>>
    /\ store \in InitialStores
    /\ dbOpen = FALSE
    /\ srcdoc = NullS
    /\ last = Event("mount", NoValue)
    /\ advisory = NoMsg
    /\ srcdocSet = FALSE
    /\ dbOps = <<>>
    /\ suggestions = <<>>
    /\ showSuggestions = FALSE
    /\ completing = <<>>

\* useEffect[isExecuting, pendingOutput]: the pending terminal text is
\* appended as an entry with input '' once isExecuting is false.
FlushDue(exec, pend) ==
    /\ (exec # isExecuting \/ pend # pendingOutput)
    /\ ~exec
    /\ ~pend.null

\* useEffect[htmlInjection]: a changed, truthy htmlInjection is written to
\* the iframe.
InjectDue(html) == html # htmlInjection /\ ~html.null /\ html.s # <<>>

\* useEffect[history, localDB]: putBulkValue(STORE_NAME, history) after every
\* render in which history or localDB changed, when localDB is set.
BulkDue(histSet, ldb) == ldb /\ (histSet \/ ldb # localDB)

\* The render after a handler and the effects it runs.  h, exec, pend, html
\* and ldb are the state as the handler's updates leave it, histSet says
\* whether the handler called setHistory, and puts are the adapter calls the
\* handler made itself.
Render(h, histSet, exec, pend, html, ldb, open, puts) ==
    LET flush == FlushDue(exec, pend)
        h2 == IF flush THEN Append(h, Item(<<>>, pend)) ELSE h
        ops == puts
               \o (IF BulkDue(histSet, ldb) THEN <<PutBulkValueOp(h)>> ELSE <<>>)
               \o (IF flush /\ ldb THEN <<PutBulkValueOp(h2)>> ELSE <<>>)
    IN  /\ history' = h2
        /\ isExecuting' = exec
        /\ pendingOutput' = IF flush THEN NullS ELSE pend
        /\ htmlInjection' = html
        /\ srcdoc' = IF InjectDue(html) THEN html ELSE srcdoc
        /\ srcdocSet' = InjectDue(html)
        /\ localDB' = ldb
        /\ dbOpen' = open
        /\ store' = ApplyOps(store, open, ops)
        /\ dbOps' = OpNames(ops)

\* A handler that touches none of the state the effects depend on.
NoRender ==
    /\ UNCHANGED <<history, isExecuting, pendingOutput, htmlInjection, srcdoc,
                   localDB, dbOpen, store>>
    /\ srcdocSet' = FALSE
    /\ dbOps' = <<>>

\* ------------------------------------------------------------ the keyboard

\* handleInputChange: the textarea's new value.
handleInputChange(text) ==
    /\ currentInput' = text
    /\ last' = Event("change", NoValue)
    /\ UNCHANGED tabVars
    /\ advisory' = NoMsg
    /\ NoRender
    /\ UNCHANGED <<historyIndex, isPyodideReady, N0, boot, initDB, savedHistory, inflight>>

\* Shift+Enter doing nothing while a call is executing.
ShiftEnter_IgnoredWhileBusy ==
    /\ Len(currentInput) < MaxInputLen
    /\ currentInput' = IF isExecuting THEN currentInput ELSE Append(currentInput, NL)
    /\ last' = Event("shiftEnter", NoValue)
    /\ UNCHANGED tabVars
    /\ advisory' = NoMsg
    /\ NoRender
    /\ UNCHANGED <<historyIndex, isPyodideReady, N0, boot, initDB, savedHistory, inflight>>

\* handleKeyDown, Shift+Enter.
ShiftEnter ==
    /\ Len(currentInput) < MaxInputLen
    /\ currentInput' = Append(currentInput, NL)
    /\ last' = Event("shiftEnter", NoValue)
    /\ UNCHANGED tabVars
    /\ advisory' = NoMsg
    /\ NoRender
    /\ UNCHANGED <<historyIndex, isPyodideReady, N0, boot, initDB, savedHistory, inflight>>

\* handleKeyDown, Enter on a buffer that continues: a newline is appended.
EnterNewline ==
    /\ isContinueLastLine(currentInput) \/ isMultiLine(currentInput)
    /\ Len(currentInput) < MaxInputLen
    /\ currentInput' = Append(currentInput, NL)
    /\ last' = Event("newline", NoValue)
    /\ UNCHANGED tabVars
    /\ advisory' = NoMsg
    /\ NoRender
    /\ UNCHANGED <<historyIndex, isPyodideReady, N0, boot, initDB, savedHistory, inflight>>

\* executeCode comparing the untrimmed code with ''.
executeCode_NoTrim(code) ==
    IF code = <<>>
    THEN [calls |-> inflight, exec |-> isExecuting, msg |-> NoMsg]
    ELSE IF ~isPyodideReady
    THEN [calls |-> inflight, exec |-> isExecuting, msg |-> MsgStillLoading]
    ELSE [calls |-> Append(inflight, Call(code, localDB)), exec |-> TRUE, msg |-> NoMsg]

\* executeCode calling the backend whether it is ready or not.
executeCode_NoReadyCheck(code) ==
    IF Trim(code) = <<>>
    THEN [calls |-> inflight, exec |-> isExecuting, msg |-> NoMsg]
    ELSE [calls |-> Append(inflight, Call(code, localDB)), exec |-> TRUE, msg |-> NoMsg]

\* executeCode(code), up to the call of runPythonAsync: the pending calls,
\* isExecuting and the advisory it leaves.
executeCode(code) ==
    IF Trim(code) = <<>>
    THEN [calls |-> inflight, exec |-> isExecuting, msg |-> NoMsg]
    ELSE IF ~isPyodideReady
    THEN [calls |-> inflight, exec |-> isExecuting, msg |-> MsgStillLoading]
    ELSE [calls |-> Append(inflight, Call(code, localDB)), exec |-> TRUE, msg |-> NoMsg]

\* handleKeyDown, Enter otherwise: executeCode(currentInput), and finally
\* setHistoryIndex(-1).
EnterSubmit ==
    /\ ~(isContinueLastLine(currentInput) \/ isMultiLine(currentInput))
    /\ LET r == executeCode(currentInput)
       IN  /\ Len(history) + Len(r.calls) <= MaxHistory
           /\ inflight' = r.calls
           /\ advisory' = r.msg
           /\ Render(history, FALSE, r.exec, pendingOutput, htmlInjection,
                     localDB, dbOpen, <<>>)
    /\ historyIndex' = -1
    /\ last' = Event("submit", NoValue)
    /\ UNCHANGED tabVars
    /\ UNCHANGED <<currentInput, isPyodideReady, N0, boot, initDB, savedHistory>>

\* handleKeyDown, ArrowUp: the index the cursor moves to.  Entry k of the
\* code's zero-based history[history.length - 1 - k] is history[Len - k].
RECURSIVE SkipOlder(_, _)
SkipOlder(h, newIndex) ==
    IF newIndex < Len(h) - 1
       /\ (h[Len(h) - newIndex].input = SentinelInput \/ h[Len(h) - newIndex].input = <<>>)
    THEN SkipOlder(h, newIndex + 1)
    ELSE newIndex

\* history[history.length - 1 - k] is an entry; otherwise it is undefined and
\* reading its input throws a TypeError that ends the handler.
InHistory(h, k) == (Len(h) - k) \in 1..Len(h)

\* handleKeyDown, ArrowDown: the index the cursor moves to, or threw when
\* the loop read the input of undefined.
RECURSIVE SkipNewer(_, _)
SkipNewer(h, newIndex) ==
    IF newIndex > 0
    THEN IF ~InHistory(h, newIndex) THEN [threw |-> TRUE, index |-> newIndex]
         ELSE IF h[Len(h) - newIndex].input = SentinelInput \/ h[Len(h) - newIndex].input = <<>>
         THEN SkipNewer(h, newIndex - 1)
         ELSE [threw |-> FALSE, index |-> newIndex]
    ELSE [threw |-> FALSE, index |-> newIndex]

\* handleKeyDown, ArrowUp: the cursor and the buffer it leaves, given the
\* transcript, the cursor and the buffer of the render it runs in.
ArrowUpResult(h, idx, buf) ==
    IF idx < Len(h) - 1
    THEN LET newIndex == SkipOlder(h, idx + 1)
         IN  [index |-> newIndex, input |-> h[Len(h) - newIndex].input]
    ELSE [index |-> idx, input |-> buf]

ArrowUp ==
    /\ LET r == ArrowUpResult(history, historyIndex, currentInput)
       IN  historyIndex' = r.index /\ currentInput' = r.input
    /\ last' = Event("arrowUp", NoValue)
    /\ UNCHANGED tabVars
    /\ advisory' = NoMsg
    /\ NoRender
    /\ UNCHANGED <<isPyodideReady, N0, boot, initDB, savedHistory, inflight>>

\* handleKeyDown, ArrowDown: the cursor and the buffer it leaves.
\* setHistoryIndex(newIndex) runs before the argument of setCurrentInput is
\* evaluated, so a TypeError there leaves the new index and the old buffer.
ArrowDownResult(h, idx, buf) ==
    IF idx > 0
    THEN LET r == SkipNewer(h, idx - 1)
         IN  IF r.threw THEN [index |-> idx, input |-> buf]
             ELSE [index |-> r.index,
                   input |-> IF InHistory(h, r.index)
                             THEN h[Len(h) - r.index].input
                             ELSE buf]
    ELSE IF idx = 0
    THEN [index |-> -1, input |-> <<>>]
    ELSE [index |-> idx, input |-> buf]

ArrowDown ==
    /\ LET r == ArrowDownResult(history, historyIndex, currentInput)
       IN  historyIndex' = r.index /\ currentInput' = r.input
    /\ last' = Event("arrowDown", NoValue)
    /\ UNCHANGED tabVars
    /\ advisory' = NoMsg
    /\ NoRender
    /\ UNCHANGED <<isPyodideReady, N0, boot, initDB, savedHistory, inflight>>

\* handleKeyDown, ArrowUp with the shift key held: event.shiftKey is tested
\* for Enter only, so the ArrowUp branch runs.
ShiftArrowUp ==
    /\ LET r == ArrowUpResult(history, historyIndex, currentInput)
       IN  historyIndex' = r.index /\ currentInput' = r.input
    /\ last' = Event("shiftArrowUp", NoValue)
    /\ UNCHANGED tabVars
    /\ advisory' = NoMsg
    /\ NoRender
    /\ UNCHANGED <<isPyodideReady, N0, boot, initDB, savedHistory, inflight>>

\* handleKeyDown, ArrowDown with the shift key held.
ShiftArrowDown ==
    /\ LET r == ArrowDownResult(history, historyIndex, currentInput)
       IN  historyIndex' = r.index /\ currentInput' = r.input
    /\ last' = Event("shiftArrowDown", NoValue)
    /\ UNCHANGED tabVars
    /\ advisory' = NoMsg
    /\ NoRender
    /\ UNCHANGED <<isPyodideReady, N0, boot, initDB, savedHistory, inflight>>

\* ------------------------------------------------------------- completion

\* getObj(text): lastLine.lastIndexOf('.') is LastIndexOf - 1, so -1 (no
\* dot) is 0 here; substring(0, -1) is ''.
getObj(text) ==
    LET lastLine == LastLine(text)
        dot == LastIndexOf(lastLine, ".")
    IN  [obj |-> SubSeq(lastLine, 1, dot - 1),
         x |-> IF Len(lastLine) = dot THEN <<>>
               ELSE SubSeq(lastLine, dot + 1, Len(lastLine))]

\* suggestions.find(suggestion => suggestion.startsWith(x)): the index of the
\* first match from position k on, 0 when there is none.
RECURSIVE FindFrom(_, _, _)
FindFrom(list, x, k) ==
    IF k > Len(list) THEN 0
    ELSE IF StartsWith(list[k], x) THEN k
    ELSE FindFrom(list, x, k + 1)

\* The then callback without the test x !== ''.
completed_NoEmptyCheck(q, list, buf) ==
    IF FindFrom(list, q.x, 1) # 0
    THEN q.obj \o <<".">> \o list[FindFrom(list, q.x, 1)]
    ELSE buf

\* The then callback of getSuggestions(obj): the buffer it leaves.
completed(q, list, buf) ==
    IF q.x # <<>> /\ FindFrom(list, q.x, 1) # 0
    THEN q.obj \o <<".">> \o list[FindFrom(list, q.x, 1)]
    ELSE buf

\* prependTabToLastLine(text): two spaces before the last line.
prependTabToLastLine(text) ==
    SubSeq(text, 1, LastIndexOf(text, NL)) \o <<" ", " ">> \o LastLine(text)

\* Tab indenting the last line (setCurrentInput(prev =>
\* prependTabToLastLine(prev))) and asking for no completion.
Tab_Indents ==
    /\ currentInput' = prependTabToLastLine(currentInput)
    /\ advisory' = NoMsg
    /\ UNCHANGED tabVars
    /\ last' = Event("tab", NoValue)
    /\ NoRender
    /\ UNCHANGED <<historyIndex, isPyodideReady, N0, boot, initDB, savedHistory, inflight>>

\* handleKeyDown, Tab: getObj(currentInput) and getSuggestions(obj).  When the
\* backend is not ready getSuggestions returns [] at once and the then
\* callback runs before any other event.
Tab ==
    /\ IF ~isPyodideReady
       THEN /\ advisory' = MsgStillLoading
            /\ suggestions' = <<>>
            /\ showSuggestions' = TRUE
            /\ currentInput' = completed(getObj(currentInput), <<>>, currentInput)
            /\ UNCHANGED completing
       ELSE /\ Len(completing) < MaxCompleting
            /\ completing' = Append(completing, getObj(currentInput))
            /\ advisory' = NoMsg
            /\ UNCHANGED <<suggestions, showSuggestions, currentInput>>
    /\ last' = Event("tab", NoValue)
    /\ NoRender
    /\ UNCHANGED <<historyIndex, isPyodideReady, N0, boot, initDB, savedHistory, inflight>>

\* runPythonAsync of getSuggestions resolves and JSON.parse gives list: the
\* then callback of the Tab branch.
Suggested(i, list) ==
    /\ i \in 1..Len(completing)
    /\ completing' = RemoveAt(completing, i)
    /\ suggestions' = list
    /\ showSuggestions' = TRUE
    /\ currentInput' = completed(completing[i], list, currentInput)
    /\ advisory' = NoMsg
    /\ last' = Event("suggested", NoValue)
    /\ NoRender
    /\ UNCHANGED <<historyIndex, isPyodideReady, N0, boot, initDB, savedHistory, inflight>>

\* runPythonAsync of getSuggestions rejects (or JSON.parse throws): the catch
\* of getSuggestions, then the then callback with [].
SuggestFailed(i) ==
    /\ i \in 1..Len(completing)
    /\ completing' = RemoveAt(completing, i)
    /\ suggestions' = <<>>
    /\ showSuggestions' = TRUE
    /\ currentInput' = completed(completing[i], <<>>, currentInput)
    /\ advisory' = MsgSuggestError
    /\ last' = Event("suggestFailed", NoValue)
    /\ NoRender
    /\ UNCHANGED <<historyIndex, isPyodideReady, N0, boot, initDB, savedHistory, inflight>>

\* ------------------------------------------------------------- the backend

\* The entries a callback may still append (a bound of the model).
Room(k) == Len(history) + k <= MaxHistory
Flushes(exec, pend) == IF FlushDue(exec, pend) THEN 1 ELSE 0

\* executeCode, the then branch: runPythonAsync(code) resolved with result.
resultString(result) ==
    IF result.t \notin {"undefined", "null"} THEN Str(ToString(result)) ELSE NullS

\* The then branch storing the result string of an HTML payload too.
thenOutput_KeepHtml(result) == resultString(result)

thenOutput(result) == IF isHtml(resultString(result)) THEN NullS ELSE resultString(result)

thenInjection(result) ==
    IF isHtml(resultString(result)) THEN resultString(result) ELSE htmlInjection

Resolve(i, result) ==
    LET call == inflight[i]
        newHistoryItem == Item(call.code, thenOutput(result))
    IN  /\ Room(1 + Flushes(FALSE, pendingOutput))
        /\ inflight' = RemoveAt(inflight, i)
        /\ Render(Append(history, newHistoryItem), TRUE, FALSE, pendingOutput,
                  thenInjection(result), localDB, dbOpen,
                  IF call.localDB THEN <<PutValueOp(newHistoryItem)>> ELSE <<>>)
        /\ currentInput' = <<>>
        /\ last' = Event("resolve", result)
        /\ UNCHANGED tabVars
        /\ advisory' = NoMsg
        /\ UNCHANGED <<historyIndex, isPyodideReady, N0, boot, initDB, savedHistory>>

\* executeCode, the catch branch: runPythonAsync(code) rejected with error.
\* The catch branch treating the error string as the then branch treats a
\* result string.
catchOutput_AsThen(error) ==
    IF isHtml(Str(ErrorToString(error))) THEN NullS ELSE Str(ErrorToString(error))

catchOutput(error) == Str(ErrorToString(error))

\* The catch branch without setIsExecuting(false).
Reject_StaysBusy(i, error) ==
    LET call == inflight[i]
        newHistoryItem == Item(call.code, catchOutput(error))
    IN  /\ Room(1 + Flushes(isExecuting, pendingOutput))
        /\ inflight' = RemoveAt(inflight, i)
        /\ Render(Append(history, newHistoryItem), TRUE, isExecuting, pendingOutput,
                  htmlInjection, localDB, dbOpen,
                  IF call.localDB THEN <<PutValueOp(newHistoryItem)>> ELSE <<>>)
        /\ last' = Event("reject", error)
        /\ UNCHANGED tabVars
        /\ advisory' = NoMsg
        /\ UNCHANGED <<historyIndex, currentInput, isPyodideReady, N0, boot, initDB,
                       savedHistory>>

Reject(i, error) ==
    LET call == inflight[i]
        newHistoryItem == Item(call.code, catchOutput(error))
    IN  /\ Room(1 + Flushes(FALSE, pendingOutput))
        /\ inflight' = RemoveAt(inflight, i)
        /\ Render(Append(history, newHistoryItem), TRUE, FALSE, pendingOutput,
                  htmlInjection, localDB, dbOpen,
                  IF call.localDB THEN <<PutValueOp(newHistoryItem)>> ELSE <<>>)
        /\ last' = Event("reject", error)
        /\ UNCHANGED tabVars
        /\ advisory' = NoMsg
        /\ UNCHANGED <<historyIndex, currentInput, isPyodideReady, N0, boot, initDB,
                       savedHistory>>

\* The stdout and stderr callbacks given to loadPyodide.
\* The callbacks keeping the text the slot already holds.
terminalText_FirstWins(chunk) ==
    IF ~chunk.null /\ Trim(chunk.s) # NoneText /\ pendingOutput.null
    THEN Str(TerminalTag \o <<NL>> \o Trim(chunk.s))
    ELSE pendingOutput

terminalText(chunk) ==
    IF ~chunk.null /\ Trim(chunk.s) # NoneText
    THEN Str(TerminalTag \o <<NL>> \o Trim(chunk.s))
    ELSE pendingOutput

Stdout(chunk) ==
    /\ boot \in {"loadPyodide", "packages", "version", "ready"}
    /\ Room(Flushes(isExecuting, terminalText(chunk)))
    /\ Render(history, FALSE, isExecuting, terminalText(chunk), htmlInjection,
              localDB, dbOpen, <<>>)
    /\ last' = Event("stdout", IF chunk.null THEN NullValue ELSE StringValue(chunk.s))
    /\ UNCHANGED tabVars
    /\ advisory' = NoMsg
    /\ UNCHANGED <<historyIndex, currentInput, isPyodideReady, N0, boot, initDB,
                   savedHistory, inflight>>

\* ----------------------------------------------------------- the bootstrap

\* script.onload: setIsExecuting(true), then loadPyodide is awaited.
ScriptLoaded ==
    /\ boot = "script"
    /\ boot' = "loadPyodide"
    /\ Render(history, FALSE, TRUE, pendingOutput, htmlInjection, localDB, dbOpen, <<>>)
    /\ last' = Event("onload", NoValue)
    /\ UNCHANGED tabVars
    /\ advisory' = NoMsg
    /\ UNCHANGED <<historyIndex, currentInput, isPyodideReady, N0, initDB, savedHistory,
                   inflight>>

\* loadPyodide resolved: the advisory, then loadPyodidePackages is awaited.
PyodideLoaded ==
    /\ boot = "loadPyodide"
    /\ boot' = "packages"
    /\ advisory' = MsgPyodideLoaded
    /\ last' = Event("pyodideLoaded", NoValue)
    /\ UNCHANGED tabVars
    /\ NoRender
    /\ UNCHANGED <<historyIndex, currentInput, isPyodideReady, N0, initDB, savedHistory,
                   inflight>>

\* loadPyodidePackages resolved: the advisory, then the version probe is
\* awaited.
PackagesLoaded ==
    /\ boot = "packages"
    /\ boot' = "version"
    /\ advisory' = MsgPackagesLoaded
    /\ last' = Event("packagesLoaded", NoValue)
    /\ UNCHANGED tabVars
    /\ NoRender
    /\ UNCHANGED <<historyIndex, currentInput, isPyodideReady, N0, initDB, savedHistory,
                   inflight>>

\* The version probe resolved: the probe entry, setIsPyodideReady(true),
\* setIsExecuting(false).
probeHistory(result) ==
    IF result.t # "undefined" THEN Append(history, ProbeItem(result)) ELSE history

VersionProbed(result) ==
    /\ boot = "version"
    /\ Room(1 + Flushes(FALSE, pendingOutput))
    /\ boot' = "ready"
    /\ isPyodideReady' = TRUE
    /\ Render(probeHistory(result), result.t # "undefined", FALSE, pendingOutput,
              htmlInjection, localDB, dbOpen, <<>>)
    /\ last' = Event("versionProbed", result)
    /\ UNCHANGED tabVars
    /\ advisory' = NoMsg
    /\ UNCHANGED <<historyIndex, currentInput, N0, initDB, savedHistory, inflight>>

\* The catch of script.onload: loadPyodide, the packages or the probe failed.
\* The catch without setIsExecuting(false).
BootFailed_StaysBusy ==
    /\ boot \in {"loadPyodide", "packages", "version"}
    /\ Room(Flushes(isExecuting, pendingOutput))
    /\ boot' = "failed"
    /\ isPyodideReady' = FALSE
    /\ Render(history, FALSE, isExecuting, pendingOutput, htmlInjection, localDB, dbOpen,
              <<>>)
    /\ last' = Event("bootFailed", NoValue)
    /\ UNCHANGED tabVars
    /\ advisory' = MsgLoadError
    /\ UNCHANGED <<historyIndex, currentInput, N0, initDB, savedHistory, inflight>>

BootFailed ==
    /\ boot \in {"loadPyodide", "packages", "version"}
    /\ Room(Flushes(FALSE, pendingOutput))
    /\ boot' = "failed"
    /\ isPyodideReady' = FALSE
    /\ Render(history, FALSE, FALSE, pendingOutput, htmlInjection, localDB, dbOpen, <<>>)
    /\ last' = Event("bootFailed", NoValue)
    /\ UNCHANGED tabVars
    /\ advisory' = MsgLoadError
    /\ UNCHANGED <<historyIndex, currentInput, N0, initDB, savedHistory, inflight>>

\* ------------------------------------------------------------------ initDB

\* createObjectStore resolved true: setLocalDB(db), and getAllValue reads
\* the store as it is now (its transaction precedes every later write).
DbOpened ==
    /\ initDB = "open"
    /\ initDB' = "getAll"
    /\ savedHistory' = store
    /\ Render(history, FALSE, isExecuting, pendingOutput, htmlInjection, TRUE, TRUE, <<>>)
    /\ last' = Event("dbOpened", NoValue)
    /\ UNCHANGED tabVars
    /\ advisory' = NoMsg
    /\ UNCHANGED <<historyIndex, currentInput, isPyodideReady, N0, boot, inflight>>

\* createObjectStore caught the error of openDB and resolved false:
\* setLocalDB(db), and getAllValue throws "Database not initialized".
DbOpenFailed ==
    /\ initDB = "open"
    /\ initDB' = "failed"
    /\ Render(history, FALSE, isExecuting, pendingOutput, htmlInjection, TRUE, FALSE, <<>>)
    /\ last' = Event("dbOpenFailed", NoValue)
    /\ UNCHANGED tabVars
    /\ advisory' = NoMsg
    /\ UNCHANGED <<historyIndex, currentInput, isPyodideReady, N0, boot, savedHistory,
                   inflight>>

\* The filter giving items without the id of their records.
filteredHistory_DropIds(saved) ==
    LET kept == SelectSeq(saved, LAMBDA item : item.input # SentinelInput)
    IN  [k \in 1..Len(kept) |-> Item(kept[k].input, kept[k].output)]

filteredHistory(saved) == SelectSeq(saved, LAMBDA item : item.input # SentinelInput)

\* getAllValue resolved: setHistory(filteredHistory), setN0.
HistoryLoaded ==
    /\ initDB = "getAll"
    /\ initDB' = "done"
    /\ N0' = Len(filteredHistory(savedHistory))
    /\ Render(filteredHistory(savedHistory), TRUE, isExecuting, pendingOutput,
              htmlInjection, localDB, dbOpen, <<>>)
    /\ last' = Event("historyLoaded", NoValue)
    /\ UNCHANGED tabVars
    /\ advisory' = NoMsg
    /\ UNCHANGED <<historyIndex, currentInput, isPyodideReady, boot, savedHistory, inflight>>

\* ----------------------------------------------------------- the behaviour

\* The environment of Spec.  The user types, presses Enter on a buffer that
\* submits and presses the arrow keys; the backend settles the pending calls
\* in any order and writes terminal text at any time; the bootstrap and
\* initDB advance independently, except that initDB has settled by the time
\* the version probe resolves (opening the local database is faster than
\* downloading the backend and its packages).
DbSettled == initDB \in {"done", "failed"}

Next ==
    \/ \E text \in Inputs : handleInputChange(text)
    \/ EnterSubmit
    \/ ArrowUp
    \/ ArrowDown
    \/ \E i \in 1..Len(inflight) : \E result \in Results : Resolve(i, result)
    \/ \E i \in 1..Len(inflight) : \E error \in Errors : Reject(i, error)
    \/ \E chunk \in Chunks : Stdout(chunk)
    \/ ScriptLoaded
    \/ PyodideLoaded
    \/ PackagesLoaded
    \/ DbSettled /\ \E result \in VersionResults : VersionProbed(result)
    \/ BootFailed
    \/ DbOpened
    \/ DbOpenFailed
    \/ HistoryLoaded

Spec == Init /\ [][Next]_vars

\* ---------------------------------------------------- the keyboard at work

\* The buffers the user types when editing: one and two lines, with and
\* without a continuation mark at the end of the last line.
KeyInputs ==
    {<<>>, <<"a">>, <<"a", ":">>, <<"a", "\\">>, <<":", " ">>,
     <<"a", NL>>, <<"a", NL, "b">>}

\* The console with Enter, Shift+Enter and the arrow keys, a backend that
\* boots and whose calls are still running, and a database that opens.
NextKeys ==
    \/ \E text \in KeyInputs : handleInputChange(text)
    \/ ShiftEnter
    \/ EnterNewline
    \/ EnterSubmit
    \/ ArrowUp
    \/ ArrowDown
    \/ ShiftArrowUp
    \/ ShiftArrowDown
    \/ ScriptLoaded
    \/ PyodideLoaded
    \/ PackagesLoaded
    \/ DbSettled /\ \E result \in VersionResults : VersionProbed(result)
    \/ DbOpened
    \/ HistoryLoaded

SpecKeys == Init /\ [][NextKeys]_vars

\* ------------------------------------------------------- completion at work

\* The buffers Tab is pressed on: no dot, a dot with and without a partial
\* token, a token no candidate starts with, and two lines.
TabInputs ==
    {<<"x">>, <<"a", ".">>, <<"a", ".", "x">>, <<"a", ".", "q">>,
     <<"b", NL, "a", ".", "x">>}

\* What JSON.parse(result) gives getSuggestions: dir(obj) in backend order.
CandidateLists == {<<>>, <<<<"y">>, <<"x", "z">>, <<"x", "y">>>>}

\* The console with Tab, a backend that boots and answers the queries of
\* getSuggestions or fails them, and a database that opens.
NextTab ==
    \/ \E text \in TabInputs : handleInputChange(text)
    \/ Tab
    \/ \E i \in 1..Len(completing) : \E list \in CandidateLists : Suggested(i, list)
    \/ \E i \in 1..Len(completing) : SuggestFailed(i)
    \/ ScriptLoaded
    \/ PyodideLoaded
    \/ PackagesLoaded
    \/ DbSettled /\ \E result \in VersionResults : VersionProbed(result)
    \/ DbOpened
    \/ HistoryLoaded

SpecTab == Init /\ [][NextTab]_vars

\* -------------------------------------------------------- outputs at work

\* Results whose strings carry the tags the classifiers look for, a tag cut
\* short, and results without a tag.
OutputResults ==
    {NullValue, NumberValue(2), StringValue(HtmlHi),
     StringValue(ErrorTag \o <<"x">>), StringValue(WarningTag \o <<"x">>),
     StringValue(SubSeq(WarningTag, 1, 13)), StringValue(TerminalTag)}

\* The chunks of a backend that writes two different texts to the terminal.
OutputChunks == Chunks \cup {Str(<<"y">>)}

\* The console submitting "a" to a backend that answers with every kind of
\* output, rejects, and writes to the terminal; the render classifies the
\* output of every entry of the transcript.
NextOutputs ==
    \/ handleInputChange(<<"a">>)
    \/ EnterSubmit
    \/ \E i \in 1..Len(inflight) : \E result \in OutputResults : Resolve(i, result)
    \/ \E i \in 1..Len(inflight) : \E error \in Errors : Reject(i, error)
    \/ \E chunk \in OutputChunks : Stdout(chunk)
    \/ ScriptLoaded
    \/ PyodideLoaded
    \/ PackagesLoaded
    \/ DbSettled /\ \E result \in VersionResults : VersionProbed(result)
    \/ DbOpened
    \/ HistoryLoaded

SpecOutputs == Init /\ [][NextOutputs]_vars

\* -------------------------------------------------------- a whole session

\* The result of a call that resolves during the session.
KeyResults == {NumberValue(2)}

\* The buffers of a user who also types the words of the version entry.
SessionInputs == {<<"a">>, SentinelInput}

\* How the backend rejects during the session: a Python error.
SessionErrors == {ErrorObject(SubSeq(ErrorTag, 1, 11), <<"x">>)}

\* The console from mount on, with a database that opens and whose records
\* may arrive before or after the backend is ready, and a backend that
\* answers "a" and rejects "Python version" (it is not Python).
NextSession ==
    \/ \E text \in SessionInputs : handleInputChange(text)
    \/ EnterSubmit
    \/ \E i \in 1..Len(inflight) : \E result \in KeyResults :
          inflight[i].code # SentinelInput /\ Resolve(i, result)
    \/ \E i \in 1..Len(inflight) : \E error \in SessionErrors :
          inflight[i].code = SentinelInput /\ Reject(i, error)
    \/ ScriptLoaded
    \/ PyodideLoaded
    \/ PackagesLoaded
    \/ \E result \in VersionResults : VersionProbed(result)
    \/ DbOpened
    \/ HistoryLoaded

SpecSession == Init /\ [][NextSession]_vars

\* -------------------------------------------------- a backend that settles

\* The buffers of a user who submits "a", which the backend evaluates, and
\* "b", which it rejects.
SettlingInputs == {<<"a">>, <<"b">>}

\* The promise of a pending runPythonAsync settles: the then or the catch
\* callback of executeCode runs.
Settles ==
    \E i \in 1..Len(inflight) :
        \/ \E result \in KeyResults : inflight[i].code = <<"a">> /\ Resolve(i, result)
        \/ \E error \in SessionErrors : inflight[i].code # <<"a">> /\ Reject(i, error)

\* The console of that user, after a store that loads before the backend is
\* ready.
NextSettling ==
    \/ \E text \in SettlingInputs : handleInputChange(text)
    \/ EnterSubmit
    \/ Settles
    \/ ScriptLoaded
    \/ PyodideLoaded
    \/ PackagesLoaded
    \/ DbSettled /\ \E result \in VersionResults : VersionProbed(result)
    \/ DbOpened
    \/ HistoryLoaded

\* The session with a backend that settles every call it was given.
SpecSettling == Init /\ [][NextSettling]_vars /\ WF_vars(Settles)

\* ---------------------------------------------------------- a slow store

\* The console of a user who submits "a" and walks the history while the
\* store is still being opened and read: initDB and script.onload are
\* independent effects, and nothing orders the load of the history against
\* the version probe or against the first submissions.
NextSlowStore ==
    \/ handleInputChange(<<"a">>)
    \/ EnterSubmit
    \/ ArrowUp
    \/ ArrowDown
    \/ \E i \in 1..Len(inflight) : \E result \in KeyResults : Resolve(i, result)
    \/ ScriptLoaded
    \/ PyodideLoaded
    \/ PackagesLoaded
    \/ \E result \in VersionResults : VersionProbed(result)
    \/ DbOpened
    \/ HistoryLoaded

SpecSlowStore == Init /\ [][NextSlowStore]_vars

\* ------------------------------------------- the pending-entry revision

\* The revision of the console that appends the entry of a submission at
\* Enter, with output null, and writes the output when the call settles.  It
\* has no isExecuting, no terminal slot and no database (its history is kept
\* in a cookie): of the state above it uses history, historyIndex,
\* currentInput, isPyodideReady, boot and inflight.
PendingFrame ==
    /\ UNCHANGED <<htmlInjection, isExecuting, pendingOutput, N0, localDB, initDB,
                   savedHistory, store, dbOpen, srcdoc>>
    /\ UNCHANGED tabVars
    /\ srcdocSet' = FALSE
    /\ dbOps' = <<>>

\* handleKeyDown, Enter: executeCode(currentInput); setHistoryIndex(-1).
\* executeCode appends { input: code, output: null } and empties the buffer
\* before it tests isPyodideReady.
EnterPending ==
    /\ IF Trim(currentInput) = <<>>
       THEN /\ advisory' = NoMsg
            /\ UNCHANGED <<history, currentInput, inflight>>
       ELSE /\ Room(1)
            /\ history' = Append(history, Item(currentInput, NullS))
            /\ currentInput' = <<>>
            /\ IF ~isPyodideReady
               THEN advisory' = MsgStillLoading /\ UNCHANGED inflight
               ELSE advisory' = NoMsg
                    /\ inflight' = Append(inflight, Call(currentInput, FALSE))
    /\ historyIndex' = -1
    /\ last' = Event("submit", NoValue)
    /\ PendingFrame
    /\ UNCHANGED <<isPyodideReady, boot>>

\* updated[updated.length - 1].output = output: the transcript with the
\* output of its last entry set.
setLastOutput(h, output) == [h EXCEPT ![Len(h)].output = output]

\* executeCode after the await: runPythonAsync(code) resolved with result.
ResolvePending(i, result) ==
    /\ i \in 1..Len(inflight)
    /\ inflight' = RemoveAt(inflight, i)
    /\ history' = setLastOutput(history, IF result.t # "undefined"
                                         THEN Str(ToString(result)) ELSE NullS)
    /\ advisory' = NoMsg
    /\ last' = Event("resolve", result)
    /\ PendingFrame
    /\ UNCHANGED <<historyIndex, currentInput, isPyodideReady, boot>>

\* executeCode, the catch: runPythonAsync(code) rejected with error.
RejectPending(i, error) ==
    /\ i \in 1..Len(inflight)
    /\ inflight' = RemoveAt(inflight, i)
    /\ history' = setLastOutput(history, Str(ErrorToString(error)))
    /\ advisory' = NoMsg
    /\ last' = Event("reject", error)
    /\ PendingFrame
    /\ UNCHANGED <<historyIndex, currentInput, isPyodideReady, boot>>

\* script.onload of the revision: loadPyodide resolved.
PyodideLoadedPending ==
    /\ boot = "script"
    /\ boot' = "packages"
    /\ advisory' = MsgPyodideLoaded
    /\ last' = Event("pyodideLoaded", NoValue)
    /\ PendingFrame
    /\ UNCHANGED <<history, historyIndex, currentInput, isPyodideReady, inflight>>

\* loadPyodidePackages resolved; the version probe is awaited.
PackagesLoadedPending ==
    /\ boot = "packages"
    /\ boot' = "version"
    /\ advisory' = MsgPackagesLoaded
    /\ last' = Event("packagesLoaded", NoValue)
    /\ PendingFrame
    /\ UNCHANGED <<history, historyIndex, currentInput, isPyodideReady, inflight>>

\* The probe resolved: its entry is appended and the backend is ready.
VersionProbedPending(result) ==
    /\ boot = "version"
    /\ Room(1)
    /\ boot' = "ready"
    /\ history' = IF result.t # "undefined"
                  THEN Append(history, Item(SentinelInput, Str(ToString(result))))
                  ELSE history
    /\ isPyodideReady' = TRUE
    /\ advisory' = NoMsg
    /\ last' = Event("versionProbed", result)
    /\ PendingFrame
    /\ UNCHANGED <<historyIndex, currentInput, inflight>>

\* The catch of script.onload.
BootFailedPending ==
    /\ boot \in {"script", "packages", "version"}
    /\ boot' = "failed"
    /\ isPyodideReady' = FALSE
    /\ advisory' = MsgLoadError
    /\ last' = Event("bootFailed", NoValue)
    /\ PendingFrame
    /\ UNCHANGED <<history, historyIndex, currentInput, inflight>>

\* The console of the revision: a user who types "a" or "b" and presses
\* Enter, before and after the backend is ready, and a backend that settles
\* the pending calls in any order.
NextPending ==
    \/ \E text \in SettlingInputs : handleInputChange(text)
    \/ EnterPending
    \/ \E i \in 1..Len(inflight) : \E result \in KeyResults : ResolvePending(i, result)
    \/ \E i \in 1..Len(inflight) : \E error \in SessionErrors : RejectPending(i, error)
    \/ PyodideLoadedPending
    \/ PackagesLoadedPending
    \/ \E result \in VersionResults : VersionProbedPending(result)
    \/ BootFailedPending

SpecPending == Init /\ [][NextPending]_vars

\* ------------------------------------------------------------- the claims

\* The last handler was the then or the catch callback of a call.
Completed == last.ev \in {"resolve", "reject"}

\* C1: at most one call of the backend is pending at any time (a submit
\* while Busy is rejected and reaches no second runPythonAsync).
C1_AtMostOneInFlight == Len(inflight) <= 1

\* C2: a step that appends a synthetic entry (input '') to the transcript
\* leaves no call of the backend pending.
C2_FlushOnlyWhenNothingInFlight ==
    [][(/\ last'.ev \in {"resolve", "reject", "stdout", "versionProbed", "bootFailed"}
        /\ Len(history') > Len(history)
        /\ history'[Len(history')].input = <<>>)
       => inflight' = <<>>]_vars

\* C3: terminal text that reaches the transcript while a call is pending
\* does so at the completion of a call, as the second of exactly two new
\* entries, the first being the user entry of that call.
C3_UserEntryThenTerminalEntry ==
    [][(/\ inflight # <<>>
        /\ last'.ev \in {"resolve", "reject", "stdout"}
        /\ Len(history') > Len(history)
        /\ history'[Len(history')].input = <<>>)
       => (/\ last'.ev \in {"resolve", "reject"}
           /\ Len(history') = Len(history) + 2
           /\ SubSeq(history', 1, Len(history)) = history
           /\ \E i \in 1..Len(inflight) :
                 /\ inflight' = RemoveAt(inflight, i)
                 /\ history'[Len(history) + 1].input = inflight[i].code)]_vars

\* C4: Enter on a buffer whose trim is empty appends no entry, makes no call
\* of the store adapter, does not call the backend and leaves isExecuting.
C4_BlankSubmitIsNoOp ==
    [][(last'.ev = "submit" /\ Trim(currentInput) = <<>>)
       => (/\ history' = history
           /\ dbOps' = <<>>
           /\ store' = store
           /\ inflight' = inflight
           /\ isExecuting' = isExecuting)]_vars

\* C4's witness: the backend is ready and the last handler submitted a
\* buffer of white space.
C4_Witness ==
    /\ last.ev = "submit"
    /\ isPyodideReady
    /\ currentInput # <<>>
    /\ Trim(currentInput) = <<>>
    /\ inflight = <<>>

\* C5: Enter on a non-blank buffer while the backend is not ready emits the
\* advisory and nothing else: no entry, no adapter call, no backend call, no
\* change of isExecuting; and no call is pending when the backend becomes
\* ready, so nothing submitted earlier runs then.
C5_NotReadySubmitIsDropped ==
    [][/\ (last'.ev = "submit" /\ Trim(currentInput) # <<>> /\ ~isPyodideReady)
          => (/\ advisory' = MsgStillLoading
              /\ history' = history
              /\ dbOps' = <<>>
              /\ store' = store
              /\ inflight' = inflight
              /\ isExecuting' = isExecuting)
       /\ (~isPyodideReady /\ isPyodideReady') => inflight' = <<>>]_vars

\* C5's witness: a non-blank buffer was submitted before the backend was
\* ready and the advisory was emitted.
C5_Witness ==
    /\ last.ev = "submit"
    /\ ~isPyodideReady
    /\ Trim(currentInput) # <<>>
    /\ advisory = MsgStillLoading

\* C6: when a call resolves with a value whose string starts with <html> and
\* ends with </html>, the new entry has the submitted code as input and
\* output null and the string goes to htmlInjection and the iframe; for
\* every other value that is neither undefined nor null the entry's output
\* is the value's string and neither htmlInjection nor the iframe changes.
C6_HtmlRouting ==
    [][last'.ev = "resolve"
       => LET r == last'.value
              e == history'[Len(history) + 1]
          IN  /\ Len(history') > Len(history)
              /\ \E i \in 1..Len(inflight) :
                    inflight' = RemoveAt(inflight, i) /\ e.input = inflight[i].code
              /\ r.t \in {"number", "string"}
                 => IF StartsWith(ToString(r), HtmlOpen) /\ EndsWith(ToString(r), HtmlClose)
                    THEN /\ e.output = NullS
                         /\ htmlInjection' = Str(ToString(r))
                         /\ srcdoc' = Str(ToString(r))
                    ELSE /\ e.output = Str(ToString(r))
                         /\ htmlInjection' = htmlInjection
                         /\ srcdoc' = srcdoc
                         /\ ~srcdocSet']_vars

\* C6's witness: a call resolved with <html>hi</html>, the iframe holds it
\* and the call's entry has output null.
C6_Witness ==
    /\ last.ev = "resolve"
    /\ last.value = StringValue(HtmlHi)
    /\ srcdoc = Str(HtmlHi)
    /\ srcdocSet
    /\ \E k \in 1..Len(history) : history[k].input = <<"a">> /\ history[k].output = NullS

\* C7: every call that resolves with an HTML payload makes the render write
\* the payload to the iframe.
C7_SinkWrittenPerHtmlResult ==
    (last.ev = "resolve" /\ last.value.t = "string" /\ isHtml(Str(last.value.s)))
        => srcdocSet

\* C8: when a call rejects, exactly one entry with the submitted code and
\* the error's string is appended (followed only by the flushed terminal
\* entry, if text was pending), the error string reaches neither
\* htmlInjection nor the iframe, isExecuting becomes false and the backend
\* stays ready.
C8_RejectionBecomesEntry ==
    [][last'.ev = "reject"
       => /\ SubSeq(history', 1, Len(history)) = history
          /\ Len(history') = Len(history) + (IF pendingOutput.null THEN 1 ELSE 2)
          /\ \E i \in 1..Len(inflight) :
                /\ inflight' = RemoveAt(inflight, i)
                /\ history'[Len(history) + 1]
                     = Item(inflight[i].code, Str(ErrorToString(last'.value)))
          /\ Len(history') = Len(history) + 2 => history'[Len(history')].input = <<>>
          /\ htmlInjection' = htmlInjection
          /\ srcdoc' = srcdoc
          /\ ~srcdocSet'
          /\ ~isExecuting'
          /\ isPyodideReady']_vars

\* C8's witness: a call rejected with a string that looks like an HTML
\* payload, which is now the output of the last entry, and the iframe was
\* never written.
C8_Witness ==
    /\ last.ev = "reject"
    /\ last.value = ThrownString(HtmlOpen \o HtmlClose)
    /\ history # <<>>
    /\ history[Len(history)] = Item(<<"a">>, Str(HtmlOpen \o HtmlClose))
    /\ srcdoc = NullS
    /\ ~isExecuting

\* C9: after every completed call, resolved or rejected, isExecuting is
\* false, the buffer is empty and the cursor is -1.
C9_IdleEmptyResetAfterCompletion ==
    Completed => (~isExecuting /\ currentInput = <<>> /\ historyIndex = -1)

\* C10: with the database open, a completed call is persisted by one putValue
\* and by no other call of the store adapter.
C10_SingleAppendPerSubmission ==
    (Completed /\ dbOpen) => dbOps = <<"putValue">>

\* An entry history recall may land on: its input is neither the sentinel of
\* the version probe nor the empty input of a synthetic entry.
Navigable(item) == item.input # SentinelInput /\ item.input # <<>>

\* C11: ArrowUp and ArrowDown never leave the sentinel "Python version" in
\* the buffer, and ArrowUp on a transcript without navigable entries
\* changes neither the cursor nor the buffer.
C11_RecallSkipsNonNavigable ==
    [][last'.ev \in {"arrowUp", "arrowDown"}
       => /\ currentInput' # SentinelInput
          /\ (last'.ev = "arrowUp" /\ \A k \in 1..Len(history) : ~Navigable(history[k]))
             => (historyIndex' = historyIndex /\ currentInput' = currentInput)]_vars

\* C12: the cursor is at least -1 and less than the number of navigable
\* entries of the transcript.
C12_CursorWithinNavigable ==
    /\ historyIndex >= -1
    /\ historyIndex < Cardinality({k \in 1..Len(history) : Navigable(history[k])})

\* The cursor and buffer after n presses of ArrowUp, and after n presses of
\* ArrowDown, starting from the cursor and buffer s.
RECURSIVE ArrowUps(_, _, _)
ArrowUps(h, s, n) ==
    IF n = 0 THEN s
    ELSE ArrowUps(h, ArrowUpResult(h, s.index, s.input), n - 1)
RECURSIVE ArrowDowns(_, _, _)
ArrowDowns(h, s, n) ==
    IF n = 0 THEN s
    ELSE ArrowDowns(h, ArrowDownResult(h, s.index, s.input), n - 1)

\* C13: from cursor -1, n presses of ArrowUp followed by n presses of
\* ArrowDown leave the cursor at -1 and the buffer as it was before.
C13_UpsThenDownsRestore ==
    historyIndex = -1
    => \A n \in 1..MaxPresses :
          ArrowDowns(history,
                     ArrowUps(history, [index |-> -1, input |-> currentInput], n),
                     n)
            = [index |-> -1, input |-> currentInput]

\* C14: plain Enter appends a newline to the buffer, and submits nothing,
\* exactly when the buffer ends with ':' or with a backslash, or holds a
\* newline and does not end with one (more than one line, the last one not
\* empty); otherwise Enter passes the buffer to executeCode, which calls the
\* backend when the buffer is not blank and the backend is ready.
C14_EnterContinuesOrSubmits ==
    [][last'.ev \in {"newline", "submit"}
       => LET text == currentInput
              continues ==
                  /\ text # <<>>
                  /\ \/ text[Len(text)] \in {":", "\\"}
                     \/ /\ \E i \in 1..Len(text) : text[i] = NL
                        /\ text[Len(text)] # NL
          IN  IF continues
              THEN /\ last'.ev = "newline"
                   /\ currentInput' = text \o <<NL>>
                   /\ inflight' = inflight
                   /\ isExecuting' = isExecuting
              ELSE /\ last'.ev = "submit"
                   /\ currentInput' = text
                   /\ inflight' = IF Trim(text) # <<>> /\ isPyodideReady
                                  THEN Append(inflight, Call(text, localDB))
                                  ELSE inflight]_vars

\* C14's witness: Enter on "a:" with the backend ready left "a:" and a
\* newline in the buffer and called nothing.
C14_Witness ==
    /\ last.ev = "newline"
    /\ isPyodideReady
    /\ currentInput = <<"a", ":", NL>>
    /\ inflight = <<>>

\* C15: Shift+Enter appends a newline to the buffer and does nothing else:
\* no call of the backend, no entry, no advisory, no change of isExecuting.
C15_ShiftEnterAppendsNewline ==
    [][last'.ev = "shiftEnter"
       => /\ currentInput' = Append(currentInput, NL)
          /\ inflight' = inflight
          /\ history' = history
          /\ isExecuting' = isExecuting
          /\ advisory' = NoMsg
          /\ dbOps' = <<>>]_vars

\* C15's witness: Shift+Enter while a call is executing, on a buffer that
\* plain Enter would have submitted.
C15_Witness ==
    /\ last.ev = "shiftEnter"
    /\ isExecuting
    /\ inflight # <<>>
    /\ currentInput = <<"a", NL>>

\* C16: an arrow key pressed with the shift key held changes neither the
\* cursor nor the buffer.
C16_ShiftArrowsChangeNothing ==
    [][last'.ev \in {"shiftArrowUp", "shiftArrowDown"}
       => (historyIndex' = historyIndex /\ currentInput' = currentInput)]_vars

\* C17: when the candidates of a query arrive, the buffer's last line still
\* is the queried object, a dot and a non-empty partial token, and some
\* candidate starts with the token, the buffer becomes its earlier lines
\* followed by the object, a dot and the first such candidate.
C17_CompletionReplacesLastLine ==
    [][last'.ev = "suggested"
       => \E i \in 1..Len(completing) :
             /\ completing' = RemoveAt(completing, i)
             /\ LET q == completing[i]
                    hits == {k \in 1..Len(suggestions') : StartsWith(suggestions'[k], q.x)}
                    first == CHOOSE k \in hits : \A j \in hits : k <= j
                IN  (/\ q.x # <<>>
                     /\ LastLine(currentInput) = q.obj \o <<".">> \o q.x
                     /\ hits # {})
                    => currentInput'
                         = SubSeq(currentInput, 1, LastIndexOf(currentInput, NL))
                             \o q.obj \o <<".">> \o suggestions'[first]]_vars

\* C18: the buffer is left as it was by Tab itself, by a query that fails,
\* and by candidates that arrive for an empty partial token or of which none
\* starts with the token; Tab with the backend not ready emits the advisory,
\* leaves no candidates and makes no query; a failed query emits an advisory
\* and leaves no candidates.
C18_CompletionLeavesBuffer ==
    [][/\ last'.ev = "tab" => currentInput' = currentInput
       /\ (last'.ev = "tab" /\ ~isPyodideReady)
          => /\ advisory' = MsgStillLoading
             /\ suggestions' = <<>>
             /\ completing' = completing
             /\ inflight' = inflight
       /\ last'.ev = "suggestFailed"
          => /\ currentInput' = currentInput
             /\ advisory' = MsgSuggestError
             /\ suggestions' = <<>>
       /\ last'.ev = "suggested"
          => \E i \in 1..Len(completing) :
                /\ completing' = RemoveAt(completing, i)
                /\ (\/ completing[i].x = <<>>
                    \/ \A k \in 1..Len(suggestions') :
                          ~StartsWith(suggestions'[k], completing[i].x))
                   => currentInput' = currentInput]_vars

\* C18's witness: the query made for "a.x" failed; the buffer still is
\* "a.x", the advisory was emitted and there are no candidates.
C18_Witness ==
    /\ last.ev = "suggestFailed"
    /\ currentInput = <<"a", ".", "x">>
    /\ advisory = MsgSuggestError
    /\ suggestions = <<>>
    /\ showSuggestions

\* C19: Tab leaves the buffer as it is, without a tab character, and asks
\* getSuggestions for the buffer's last line: with the backend ready a query
\* is pending whose object, dot and partial token make up that line, and
\* otherwise the advisory of getSuggestions was emitted.
C19_TabRequestsCompletion ==
    [][last'.ev = "tab"
       => /\ currentInput' = currentInput
          /\ \A k \in 1..Len(currentInput') : currentInput'[k] # "\t"
          /\ IF isPyodideReady
             THEN /\ Len(completing') = Len(completing) + 1
                  /\ LET q == completing'[Len(completing')]
                         line == LastLine(currentInput)
                     IN  /\ \A k \in 1..Len(q.x) : q.x[k] # "."
                         /\ IF \E k \in 1..Len(line) : line[k] = "."
                            THEN line = q.obj \o <<".">> \o q.x
                            ELSE q.obj = <<>> /\ q.x = line
             ELSE advisory' = MsgStillLoading /\ showSuggestions']_vars

\* C19's witness: Tab on the two lines "b" and "a.x" with the backend ready
\* left the buffer alone and a query for a with the token x pending.
C19_Witness ==
    /\ last.ev = "tab"
    /\ isPyodideReady
    /\ currentInput = <<"b", NL, "a", ".", "x">>
    /\ completing = <<[obj |-> <<"a">>, x |-> <<"x">>]>>

\* C20: for the output of every entry of the transcript at most one of the
\* rules null, <html>...</html>, error tag, warning tag and terminal tag
\* matches, so the first match in that order is the only one and the output
\* has exactly one class (Plain when none matches); getOutputColor gives it
\* the one colour of that class; and an output that starts with
\* "PythonError:" is neither a warning nor terminal text.
C20_ClassificationTotalAndOrdered ==
    \A k \in 1..Len(history) :
        LET o == history[k].output
            matches ==
                {c \in {"None", "Html", "Error", "Warning", "Terminal"} :
                    \/ c = "None" /\ o.null
                    \/ c = "Html" /\ ~o.null /\ StartsWith(o.s, HtmlOpen)
                                  /\ EndsWith(o.s, HtmlClose)
                    \/ c = "Error" /\ ~o.null /\ StartsWith(o.s, ErrorTag)
                    \/ c = "Warning" /\ ~o.null /\ StartsWith(o.s, WarningTag)
                    \/ c = "Terminal" /\ ~o.null /\ StartsWith(o.s, TerminalTag)}
            class == IF matches = {} THEN "Plain" ELSE CHOOSE c \in matches : TRUE
        IN  /\ Cardinality(matches) <= 1
            /\ getOutputColor(o) = CASE class = "Error" -> "#ff00ff"
                                     [] class = "Warning" -> "#FFA500"
                                     [] class = "Terminal" -> "#22ffff"
                                     [] OTHER -> "inherit"
            /\ isHtml(o) <=> class = "Html"
            /\ isPythonError(o) <=> class = "Error"
            /\ isPythonWarning(o) <=> class = "Warning"
            /\ isPyodideTerminal(o) <=> class = "Terminal"
            /\ (~o.null /\ StartsWith(o.s, ErrorTag))
               => (~isPythonWarning(o) /\ ~isPyodideTerminal(o))

\* C20's witness: the transcript holds an entry whose output starts with the
\* error tag, one whose output starts with the warning tag, and they are
\* coloured differently.
C20_Witness ==
    \E j, k \in 1..Len(history) :
        /\ history[j].output = Str(ErrorTag \o <<"x">>)
        /\ history[k].output = Str(WarningTag \o <<"x">>)
        /\ getOutputColor(history[j].output) = "#ff00ff"
        /\ getOutputColor(history[k].output) = "#FFA500"

\* C21: every step leaves the transcript it found as a prefix of the
\* transcript it leaves.
C21_TranscriptAppendOnly ==
    [][/\ Len(history') >= Len(history)
       /\ SubSeq(history', 1, Len(history)) = history]_vars

\* C22: the entry appended for a rejected call has an output that starts
\* with the error tag and is rendered in the error colour.
C22_RejectionClassifiedError ==
    [][last'.ev = "reject"
       => LET o == history'[Len(history) + 1].output
          IN  /\ ~o.null
              /\ StartsWith(o.s, ErrorTag)
              /\ getOutputColor(o) = "#ff00ff"]_vars

\* C23: a database that fails to open, and every adapter call made on a
\* database that is not open, comes with an advisory passed to onMessage.
C23_PersistenceFailureAdvised ==
    [][(last'.ev = "dbOpenFailed" \/ (~dbOpen' /\ dbOps' # <<>>))
       => advisory' # NoMsg]_vars

\* C24: when the loaded records arrive, the transcript is the records read
\* from the store without the version entries; writing them back leaves the
\* store as it was; and reading the written store again gives the same
\* sequence.
C24_LoadSaveReload ==
    [][last'.ev = "historyLoaded"
       => LET loaded == SelectSeq(savedHistory, LAMBDA r : r.input # SentinelInput)
          IN  /\ history' = loaded
              /\ dbOps' = <<"putBulkValue">>
              /\ store' = store
              /\ SelectSeq(StorePutAll(savedHistory, history'),
                           LAMBDA r : r.input # SentinelInput) = loaded]_vars

\* C24's witness: the records of an earlier session were loaded and written
\* back; the store still holds its two records and the transcript the one
\* that is not the version entry.
C24_Witness ==
    /\ last.ev = "historyLoaded"
    /\ dbOps = <<"putBulkValue">>
    /\ Len(store) = 2
    /\ history = <<store[2]>>
    /\ history[1].input = <<"a">>

\* C25: in a session that began with an empty store, no two records of the
\* store stand in the opposite order of two different entries of the
\* transcript they are copies of.
C25_StoreKeepsAppendOrder ==
    (dbOpen /\ initDB = "done" /\ savedHistory = <<>>)
    => \A i, j \in 1..Len(store) : \A p, q \in 1..Len(history) :
          LET same(r, e) == r.input = e.input /\ r.output = e.output
          IN  (i < j /\ p < q /\ same(store[i], history[q]) /\ same(store[j], history[p]))
              => same(history[p], history[q])

\* C26: when a call resolves, the transcript gains the entry of that call,
\* with the submitted code as input and, for a result that has a string
\* which is not an HTML payload, that string as output, followed at most by
\* the flushed terminal entry; and with the cursor at -1 ArrowUp then puts
\* the submitted code in the buffer.
C26_EntryThenRecall ==
    [][last'.ev = "resolve"
       => \E i \in 1..Len(inflight) :
             LET c == inflight[i].code
                 r == last'.value
                 e == history'[Len(history) + 1]
                 n == Len(history') - Len(history)
             IN  /\ inflight' = RemoveAt(inflight, i)
                 /\ isPyodideReady
                 /\ n \in {1, 2}
                 /\ SubSeq(history', 1, Len(history)) = history
                 /\ e.input = c
                 /\ n = 2 => history'[Len(history')].input = <<>>
                 /\ (/\ r.t \in {"number", "string"}
                     /\ ~(StartsWith(ToString(r), HtmlOpen) /\ EndsWith(ToString(r), HtmlClose)))
                    => e.output = Str(ToString(r))
                 /\ historyIndex' = -1
                    => ArrowUpResult(history', historyIndex', currentInput').input = c]_vars

\* C27: the version probe adds one entry with the input "Python version",
\* the entries loaded from the store hold none, and no other step changes
\* the number of such entries in the transcript.
C27_OneSentinelEntry ==
    [][LET sentinels(h) == Cardinality({k \in 1..Len(h) : h[k].input = SentinelInput})
       IN  CASE last'.ev = "versionProbed" -> sentinels(history') = sentinels(history) + 1
             [] last'.ev = "historyLoaded" -> sentinels(history') = 0
             [] OTHER -> sentinels(history') = sentinels(history)]_vars

\* C28: isExecuting is true exactly when a call of executeCode is pending or
\* script.onload has started and neither finished nor failed.
C28_BusyIffUnsettled ==
    isExecuting <=> (inflight # <<>> \/ boot \in {"loadPyodide", "packages", "version"})

\* C29: when the buffer is the input of the entry the cursor designates, a
\* completion of a call or terminal text arriving leaves it so, as long as
\* the cursor stays at 0 or above.
C29_BufferFollowsCursor ==
    [][(/\ last'.ev \in {"resolve", "reject", "stdout"}
        /\ historyIndex >= 0
        /\ InHistory(history, historyIndex)
        /\ currentInput = history[Len(history) - historyIndex].input
        /\ historyIndex' >= 0)
       => (/\ InHistory(history', historyIndex')
           /\ currentInput' = history'[Len(history') - historyIndex'].input)]_vars

NavigableOffsets(h) == {k \in 0..Len(h) - 1 : Navigable(h[Len(h) - k])}

\* C31: when a navigable entry lies further into the past than the cursor,
\* ArrowUp moves the cursor to the nearest one and sets the buffer to its
\* input; when the cursor is above 0 and a navigable entry lies nearer to
\* the end than the cursor, ArrowDown does the same with the nearest of
\* those.
C31_RecallNearestNavigable ==
    [][LET older == {k \in NavigableOffsets(history) : k > historyIndex}
           newer == {k \in NavigableOffsets(history) : k < historyIndex}
       IN  /\ (last'.ev = "arrowUp" /\ older # {})
              => \E k \in older :
                    /\ \A j \in older : k <= j
                    /\ historyIndex' = k
                    /\ currentInput' = history[Len(history) - k].input
           /\ (last'.ev = "arrowDown" /\ historyIndex > 0 /\ newer # {})
              => \E k \in newer :
                    /\ \A j \in newer : k >= j
                    /\ historyIndex' = k
                    /\ currentInput' = history[Len(history) - k].input]_vars

\* C32: ArrowDown at cursor -1 changes nothing; ArrowDown at cursor 0 sets
\* the cursor to -1 and empties the buffer; ArrowUp when cursor + 1 is past
\* the oldest entry changes nothing; when every entry between the cursor and
\* the boundary is non-navigable the cursor stops on the boundary (the
\* oldest entry for ArrowUp, offset 0 for ArrowDown); and a recall never
\* moves the cursor from within the transcript to beyond one of its ends.
C32_RecallExactAtBoundaries ==
    [][last'.ev \in {"arrowUp", "arrowDown"}
       => LET up == last'.ev = "arrowUp"
              down == last'.ev = "arrowDown"
              between(a, b) == (a..b) \cap NavigableOffsets(history)
          IN  /\ (down /\ historyIndex = -1) => UNCHANGED <<historyIndex, currentInput>>
              /\ (down /\ historyIndex = 0) => (historyIndex' = -1 /\ currentInput' = <<>>)
              /\ (up /\ historyIndex + 1 > Len(history) - 1)
                 => UNCHANGED <<historyIndex, currentInput>>
              /\ (up /\ historyIndex + 1 <= Len(history) - 1
                     /\ between(historyIndex + 1, Len(history) - 2) = {})
                 => historyIndex' = Len(history) - 1
              /\ (down /\ historyIndex > 0 /\ between(1, historyIndex - 1) = {})
                 => historyIndex' = 0
              /\ historyIndex \in -1..Len(history) - 1
                 => historyIndex' \in -1..Len(history') - 1]_vars

\* C38: the cursor is -1 or the offset of an entry of the transcript, so
\* that history[history.length - 1 - historyIndex] exists whenever the
\* cursor is at 0 or above.
C38_CursorWithinTranscript ==
    /\ historyIndex >= -1
    /\ historyIndex <= Len(history) - 1
    /\ historyIndex >= 0 => InHistory(history, historyIndex)

\* C33: N0 never exceeds the length of the transcript; once initDB is done
\* N0 is the number of entries it loaded; and once the backend is ready the
\* entry at index N0 of the transcript is the entry of the version probe.
C33_BaselineAndProbePosition ==
    /\ N0 <= Len(history)
    /\ initDB = "done" => N0 = Len(filteredHistory(savedHistory))
    /\ boot = "ready" => (/\ N0 + 1 <= Len(history)
                          /\ history[N0 + 1].input = SentinelInput)

\* C34: when the candidates of a query arrive and the buffer no longer is
\* the one Tab was pressed on (its last line does not split into the object
\* and the token of the query), the buffer is left as it is.
C34_StaleCompletionIgnored ==
    [][last'.ev = "suggested"
       => \E i \in 1..Len(completing) :
             /\ completing' = RemoveAt(completing, i)
             /\ getObj(currentInput) # completing[i] => currentInput' = currentInput]_vars

\* C39: when the last line of the buffer holds no '.', Tab leaves the buffer
\* as it is, and so do the candidates that arrive for the query Tab made on
\* that buffer.
C39_NoDotNoCompletion ==
    [][LET line == LastLine(currentInput)
           noDot == \A k \in 1..Len(line) : line[k] # "."
       IN  /\ (last'.ev = "tab" /\ noDot) => currentInput' = currentInput
           /\ (last'.ev = "suggested" /\ noDot)
              => \E i \in 1..Len(completing) :
                    /\ completing' = RemoveAt(completing, i)
                    /\ getObj(currentInput) = completing[i] => currentInput' = currentInput]_vars

\* C35: a submit of non-blank code with the backend ready hands the code to
\* the backend; the then or catch callback of a call appends exactly one
\* entry, whose input is the code of that call, and ends the call; and when
\* the backend settles its calls, pending calls lead to a state with no call
\* pending and isExecuting false.
C35_DispatchedSubmissionCompletes ==
    /\ [][/\ (last'.ev = "submit" /\ Trim(currentInput) # <<>> /\ isPyodideReady)
             => (/\ inflight' = Append(inflight, Call(currentInput, localDB))
                 /\ isExecuting')
          /\ last'.ev \in {"resolve", "reject"}
             => \E i \in 1..Len(inflight) :
                   /\ inflight' = RemoveAt(inflight, i)
                   /\ history' = Append(history, history'[Len(history')])
                   /\ history'[Len(history')].input = inflight[i].code]_vars
    /\ (inflight # <<>>) ~> (inflight = <<>> /\ ~isExecuting)

\* After the entry loaded from the store and the entry of the probe, the
\* call of "a" has completed: its entry ends the transcript, no call is
\* pending and the state is Idle.
C35_Witness ==
    /\ Completed
    /\ inflight = <<>>
    /\ ~isExecuting
    /\ Len(history) = 3
    /\ history[2].input = SentinelInput
    /\ history[3].input = <<"a">>

\* C36: Enter on a buffer that submits, when the code is blank or the backend
\* is not ready, leaves the cursor and the buffer as they were.
C36_NoOpSubmitChangesNothing ==
    [][(last'.ev = "submit" /\ (Trim(currentInput) = <<>> \/ ~isPyodideReady))
       => (historyIndex' = historyIndex /\ currentInput' = currentInput)]_vars

\* C37: in the pending-entry revision the output of a settled call is
\* written to a pending entry (output null) whose input is the code of that
\* call, and no other entry of the transcript changes.
C37_OutputWrittenToOwnEntry ==
    [][last'.ev \in {"resolve", "reject"}
       => \E i \in 1..Len(inflight) : \E k \in 1..Len(history) :
             /\ inflight' = RemoveAt(inflight, i)
             /\ history[k].input = inflight[i].code
             /\ history[k].output.null
             /\ history' = [history EXCEPT
                   ![k].output = IF last'.ev = "resolve"
                                 THEN Str(ToString(last'.value))
                                 ELSE Str(ErrorToString(last'.value))]]_vars

\* C40: the catch of script.onload emits the advisory, leaves isPyodideReady
\* false and isExecuting false and appends no entry with the input
\* "Python version"; from then on the backend is never ready, no call is
\* pending, the transcript holds no such entry, and Enter on a non-blank
\* buffer that submits emits the advisory of executeCode and calls nothing.
C40_BootFailureLeavesConsoleClosed ==
    [][LET probes(h) == {k \in 1..Len(h) : h[k].input = SentinelInput}
       IN  /\ last'.ev = "bootFailed"
              => (/\ advisory' = MsgLoadError
                  /\ ~isPyodideReady'
                  /\ ~isExecuting'
                  /\ probes(history') = {})
           /\ boot = "failed"
              => (/\ boot' = "failed"
                  /\ ~isPyodideReady'
                  /\ ~isExecuting'
                  /\ inflight' = <<>>
                  /\ probes(history') = {})
           /\ (boot = "failed" /\ last'.ev = "submit" /\ Trim(currentInput) # <<>>)
              => (/\ advisory' = MsgStillLoading
                  /\ history' = history
                  /\ inflight' = inflight)]_vars

\* After the failure of the bootstrap the user submitted "a": the advisory
\* was emitted, nothing is pending and the state is Idle.
C40_Witness ==
    /\ boot = "failed"
    /\ last.ev = "submit"
    /\ currentInput = <<"a">>
    /\ advisory = MsgStillLoading
    /\ inflight = <<>>
    /\ ~isExecuting

====
